---- MODULE Spec2Model ----
(***************************************************************************)
(* NiftyMIC: the Tikhonov-regularised reconstruction solver                *)
(* (src/src/reconstruction/solver/TikhonovSolver.py), the SimpleITK        *)
(* registration wrapper (src/src/py/registration/RegistrationSimpleITK.py) *)
(* and the isotropic resampling of src/src/Registration.py.                *)
(*                                                                         *)
(* Spec     one TikhonovSolver object: constructor, setters and the steps  *)
(*          of run_reconstruction, scipy's lsqr included.                  *)
(* SpecSys  the assembly of the augmented system (N_voxels, _get_b, the    *)
(*          LinearOperator) and the operator closures applied to probe     *)
(*          vectors, over a wider family of stack sets.                    *)
(* SpecReg  one RegistrationSimpleITK object: setters, getters and the     *)
(*          steps of run_registration.                                     *)
(* SpecIso  resample_to_isotropic_grid: the slice count and the            *)
(*          nearest-neighbour copy loop.                                   *)
(*                                                                         *)
(* Vectors are sequences of integers; NaN stands for numpy's nan.          *)
(* 0-based half-open numpy ranges [lo, hi) are positions lo+1..hi here.    *)
(***************************************************************************)
EXTENDS Integers, Sequences, FiniteSets, TLC

\* ------------------------------------------------------------------ bounds
\* Largest number of data rows of a stack set of SpecSys.
MaxRows == 4
\* Largest number of data rows of a stack set of Spec.
RunRows == 2
\* Largest number of voxels of the HR volume.
MaxHR == 2
\* Largest iteration limit given to the constructor or to set_iter_max.
MaxIter == 2

\* ------------------------------------------------------------ input values
RegTypes == {"TK0", "TK1", "TV"}
AlphaVals == {-1, 0, 4}
IterMaxVals == (0 - 1)..MaxIter

\* ------------------------------------------------------------------ numbers
\* np.sqrt of a negative number, and everything computed from it.
NaN == -1000

Max(a, b) == IF a >= b THEN a ELSE b
Min(a, b) == IF a <= b THEN a ELSE b

\* np.sqrt(alpha); the inputs are perfect squares or negative.
Sqrt(a) == IF a < 0 THEN NaN ELSE CHOOSE r \in 0..a : r * r = a

NMul(a, c) == IF a = NaN \/ c = NaN THEN NaN ELSE a * c
NAdd(a, c) == IF a = NaN \/ c = NaN THEN NaN ELSE a + c

\* np.zeros(n)
Zeros(n) == [p \in 1..n |-> 0]

\* scalar * vector and vector + vector of numpy
Scale(s, v) == [p \in 1..Len(v) |-> NMul(s, v[p])]
VAdd(u, v) == [p \in 1..Len(u) |-> NAdd(u[p], v[p])]

RECURSIVE SumTo(_, _)
SumTo(f, n) == IF n = 0 THEN 0 ELSE NAdd(f[n], SumTo(f, n - 1))
\* <u, v>
Dot(u, v) == SumTo([p \in 1..Len(u) |-> NMul(u[p], v[p])], Len(u))

\* The value of a call: a result, or the exception it raised.
Ok(v) == [err |-> "none", val |-> v]
Err(e) == [err |-> e, val |-> <<>>]

\* numpy's  arr[lo:hi] = vec  for 0 <= lo: the range is clipped to the array,
\* a vector of that length is copied, a vector of length 1 is broadcast, any
\* other length raises ValueError.
SliceAssign(arr, lo, hi, vec) ==
    LET L == Len(arr)
        a == Min(lo, L)
        z == Max(a, Min(hi, L))
    IN  IF Len(vec) = z - a
        THEN Ok([p \in 1..L |-> IF a < p /\ p <= z THEN vec[p - a] ELSE arr[p]])
        ELSE IF Len(vec) = 1
        THEN Ok([p \in 1..L |-> IF a < p /\ p <= z THEN vec[1] ELSE arr[p]])
        ELSE Err("ValueError")

\* numpy's  arr[lo:hi]  (read), clipped to the array.
SliceRead(arr, lo, hi) ==
    LET L == Len(arr)
        a == Min(lo, L)
        z == Max(a, Min(hi, L))
    IN  [p \in 1..(z - a) |-> arr[a + p]]

\* numpy's  arr[-n:]  for n >= 1.
LastN(arr, n) == SliceRead(arr, Max(Len(arr) - n, 0), Len(arr))

\* ------------------------------------------------------------------ stacks
\* A stack set is described by the shape of each stack: the in-plane voxel
\* count of its slices, the slice dimension of the stack image and the length
\* of its slice list.
ShapeRows(s) == s.inplane * Max(s.zdim, s.nslices)

Shapes(r) ==
    {s \in [inplane : 1..r, zdim : 1..r, nslices : 1..r] : ShapeRows(s) <= r}

RECURSIVE ShapeSeqs(_)
ShapeSeqs(r) ==
    {<<>>} \cup
    UNION {{<<s>> \o t : t \in ShapeSeqs(r - ShapeRows(s))} : s \in Shapes(r)}

\* The non-empty stack sets of at most r data rows.
StackShapes(r) == ShapeSeqs(r) \ {<<>>}

RECURSIVE WrittenBefore(_, _)
\* Number of slice voxels of the stacks before stack i.
WrittenBefore(shapes, i) ==
    IF i <= 1 THEN 0
    ELSE WrittenBefore(shapes, i - 1)
         + shapes[i - 1].nslices * shapes[i - 1].inplane

\* Number of slice voxels of a stack set.
SliceVoxels(shapes) == WrittenBefore(shapes, Len(shapes) + 1)

\* The Stack objects of a stack set: every slice voxel has its own non-zero
\* intensity, the voxels in `masked` are outside their slice's mask, and
\* row v of slice operator A_k has the weights a[v] on the HR voxels.
MkStacks(shapes, masked, nhr) ==
    [i \in 1..Len(shapes) |->
        [size |-> <<shapes[i].inplane, 1, shapes[i].zdim>>,
         slices |->
            [j \in 1..shapes[i].nslices |->
                LET g0 == WrittenBefore(shapes, i) + (j - 1) * shapes[i].inplane
                IN  [size |-> <<shapes[i].inplane, 1, 1>>,
                     y |-> [v \in 1..shapes[i].inplane |-> g0 + v],
                     m |-> [v \in 1..shapes[i].inplane |->
                              IF (g0 + v) \in masked THEN 0 ELSE 1],
                     a |-> [v \in 1..shapes[i].inplane |->
                              [n \in 1..nhr |-> (g0 + v + n) % 3]]]]]]

\* np.array(image.sitk.GetSize()).prod()
Prod(size) == size[1] * size[2] * size[3]

\* stack.get_slices() and stack.get_number_of_slices()
get_slices(stack) == stack.slices
get_number_of_slices(stack) == Len(stack.slices)

\* ------------------------------------------------------------------- state
VARIABLES
    stacks,                 \* self._stacks
    HR_volume,              \* self._HR_volume: what the volume currently holds
    N_total_slice_voxels,   \* self._N_total_slice_voxels
    N_voxels_HR_volume,     \* self._N_voxels_HR_volume
    alpha,                  \* self._alpha
    iter_max,               \* self._iter_max
    reg_type,               \* self._reg_type
    pc,                     \* position in run_reconstruction
    N_voxels,               \* run_reconstruction: N_voxels
    b,                      \* run_reconstruction: b
    i_min,                  \* _get_b: i_min when its loops end
    A,                      \* run_reconstruction: shape of the LinearOperator A
    res,                    \* run_reconstruction: res; inside lsqr its x, istop, itn
    raised,                 \* exception the last call ended with, or "none"
    ret,                    \* value the last call returned
    lsqr_call,              \* arguments of this run's call of lsqr
    hr_start,               \* HR_volume when the run started
    hr_writes,              \* writes of HR_volume in this run
    fw,                     \* SpecSys: A.matvec of the probe vectors
    bw,                     \* SpecSys: A.rmatvec of the probe vectors
    last_call,              \* the last method called on the solver, and its argument

    \* RegistrationSimpleITK (src/src/py/registration/RegistrationSimpleITK.py)
    registration_type,      \* self._registration_type
    interpolator,           \* self._interpolator
    metric,                 \* self._metric
    metric_params,          \* self._metric_params
    optimizer,              \* self._optimizer
    optimizer_params,       \* self._optimizer_params
    scales_estimator,       \* self._scales_estimator
    initializer_type,       \* self._initializer_type
    transform_sitk,         \* self._transform_sitk, or "undefined" (never assigned)
    registration_method,    \* _run_registration: metric and Execute calls of the engine
    run_id,                 \* number of calls of run_registration so far
    reg_pc,                 \* position in _run_registration
    reg_raised,             \* exception the last call ended with, or "none"
    reg_ret,                \* value the last call returned
    reg_call,               \* the last method called on the object, and its argument

    \* Registration.resample_to_isotropic_grid (src/src/Registration.py)
    shape2,                 \* shape[2]
    pixdim0,                \* pixdim[0]
    pixdim2,                \* pixdim[2]
    order,                  \* order
    number_of_slices_target_through_plane,
    data_target,            \* per target slice: 1 + the source slice copied, 0 if none
    iso_i,                  \* i of the nearest-neighbour loop
    iso_j,                  \* j of the nearest-neighbour loop
    iso_pc                  \* position in resample_to_isotropic_grid

registration == <<registration_type, interpolator, metric, metric_params,
                  optimizer, optimizer_params, scales_estimator,
                  initializer_type, transform_sitk, registration_method, run_id,
                  reg_pc, reg_raised, reg_ret, reg_call>>

resampling == <<shape2, pixdim0, pixdim2, order,
                number_of_slices_target_through_plane, data_target, iso_i,
                iso_j, iso_pc>>

solver == <<stacks, HR_volume, N_total_slice_voxels, N_voxels_HR_volume, alpha,
            iter_max, reg_type, pc, N_voxels, b, i_min, A, res, raised, ret,
            lsqr_call, hr_start, hr_writes, fw, bw, last_call>>

vars == <<solver, registration, resampling>>

object == <<stacks, N_total_slice_voxels, N_voxels_HR_volume>>
config == <<alpha, iter_max, reg_type>>
probes == <<fw, bw>>

\* ------------------------------------------------- TikhonovSolver.__init__
RECURSIVE StackVoxels(_, _)
\* The loop over the stacks: N_stack_voxels of stacks 1..i added up.
StackVoxels(st, i) ==
    IF i = 0 THEN 0 ELSE StackVoxels(st, i - 1) + Prod(st[i].size)

\* self._N_total_slice_voxels as the constructor computes it.
TotalSliceVoxels(st) == StackVoxels(st, Len(st))

\* ------------------------------------------------ the loops over the slices
RECURSIVE Walk(_, _)
\* The slices in the order the two nested loops visit them, each with
\* N_slice_voxels of its stack (the voxel count of the stack's first slice).
Walk(st, i) ==
    IF i > Len(st) THEN <<>>
    ELSE [j \in 1..get_number_of_slices(st[i]) |->
            [slice |-> get_slices(st[i])[j],
             N_slice_voxels |-> Prod(get_slices(st[i])[1].size)]]
         \o Walk(st, i + 1)

\* Solver.Mk: the image times the mask of the slice, voxel by voxel.
Mk(img, slice_k) == [v \in 1..Len(img) |-> NMul(slice_k.m[v], img[v])]

\* A_k x: the slice simulated from the HR volume x.
Ak(slice_k, x) == [v \in 1..Len(slice_k.a) |-> Dot(slice_k.a[v], x)]

\* A_k* y: the slice-space vector y brought back onto the HR grid.
Ak_adj(slice_k, y) ==
    [n \in 1..N_voxels_HR_volume |->
        SumTo([v \in 1..Len(slice_k.a) |-> NMul(slice_k.a[v][n], y[v])],
              Len(slice_k.a))]

RECURSIVE FillB_NoAdvance(_, _, _, _)
\* Faulty variant: i_min is not moved on to i_max after a slice is written.
FillB_NoAdvance(w, bcur, imin, k) ==
    IF k > Len(w) THEN [err |-> "none", val |-> bcur, i_min |-> imin]
    ELSE LET imax == imin + w[k].N_slice_voxels
             slice_nda_vec == Mk(w[k].slice.y, w[k].slice)
             r == SliceAssign(bcur, imin, imax, slice_nda_vec)
         IN  IF r.err # "none"
             THEN [err |-> r.err, val |-> <<>>, i_min |-> imin]
             ELSE FillB_NoAdvance(w, r.val, imin, k + 1)

RECURSIVE FillB_NoMask(_, _, _, _)
\* Faulty variant: the slice is written to b as it is, without applying M_k.
FillB_NoMask(w, bcur, imin, k) ==
    IF k > Len(w) THEN [err |-> "none", val |-> bcur, i_min |-> imin]
    ELSE LET imax == imin + w[k].N_slice_voxels
             slice_nda_vec == w[k].slice.y
             r == SliceAssign(bcur, imin, imax, slice_nda_vec)
         IN  IF r.err # "none"
             THEN [err |-> r.err, val |-> <<>>, i_min |-> imin]
             ELSE FillB_NoMask(w, r.val, imax, k + 1)

RECURSIVE FillB(_, _, _, _)
\* The body of _get_b's loops from the k-th visited slice on.
FillB(w, bcur, imin, k) ==
    IF k > Len(w) THEN [err |-> "none", val |-> bcur, i_min |-> imin]
    ELSE LET imax == imin + w[k].N_slice_voxels
             slice_nda_vec == Mk(w[k].slice.y, w[k].slice)
             r == SliceAssign(bcur, imin, imax, slice_nda_vec)
         IN  IF r.err # "none"
             THEN [err |-> r.err, val |-> <<>>, i_min |-> imin]
             ELSE FillB(w, r.val, imax, k + 1)

\* TikhonovSolver._get_b
get_b(N_vox) == FillB(Walk(stacks, 1), Zeros(N_vox), 0, 1)

RECURSIVE FillMA(_, _, _, _, _)
FillMA(w, x, cur, imin, k) ==
    IF k > Len(w) THEN Ok(cur)
    ELSE LET imax == imin + w[k].N_slice_voxels
             r == SliceAssign(cur, imin, imax, Mk(Ak(w[k].slice, x), w[k].slice))
         IN  IF r.err # "none" THEN r ELSE FillMA(w, x, r.val, imax, k + 1)

\* Solver.MA: the masked slices M_k A_k x, stacked in the order of the loops.
MA(x) == FillMA(Walk(stacks, 1), x, Zeros(N_total_slice_voxels), 0, 1)

RECURSIVE SumAdj(_, _, _, _, _)
SumAdj(w, y, acc, imin, k) ==
    IF k > Len(w) THEN Ok(acc)
    ELSE LET imax == imin + w[k].N_slice_voxels
             y_k == SliceRead(y, imin, imax)
         IN  IF Len(y_k) # Len(w[k].slice.m) THEN Err("ValueError")
             ELSE SumAdj(w, y, VAdd(acc, Ak_adj(w[k].slice, Mk(y_k, w[k].slice))),
                         imax, k + 1)

\* Solver.A_adj_M: sum of A_k* M_k y_k over the per-slice blocks y_k of y.
A_adj_M(y) == SumAdj(Walk(stacks, 1), y, Zeros(N_voxels_HR_volume), 0, 1)

\* Solver.D: the three forward differences of x, stacked; the HR grid is a
\* row of N voxels (size N x 1 x 1) and x is zero outside the grid.
D(x) ==
    LET N == Len(x)
    IN  [p \in 1..(3 * N) |->
            IF p <= N
            THEN NAdd(IF p < N THEN x[p + 1] ELSE 0, NMul(0 - 1, x[p]))
            ELSE NMul(0 - 1, x[((p - 1) % N) + 1])]

\* Solver.D_adj: the adjoint of D applied to the last 3N entries of y.
D_adj(y) ==
    LET N == N_voxels_HR_volume
        g == LastN(y, 3 * N)
    IN  [n \in 1..N |->
            NAdd(NAdd(NAdd(IF n > 1 THEN g[n - 1] ELSE 0, NMul(0 - 1, g[n])),
                      NMul(0 - 1, g[N + n])),
                 NMul(0 - 1, g[2 * N + n]))]

\* ----------------------------------------------------- augmented operators
\* TikhonovSolver._A_TK0
_A_TK0(HR_nda_vec, N_vox, alph) ==
    LET N == N_voxels_HR_volume
        MA_x == MA(HR_nda_vec)
        upper == SliceAssign(Zeros(N_vox), 0, Max(N_vox - N, 0), MA_x.val)
    IN  IF MA_x.err # "none" THEN MA_x
        ELSE IF upper.err # "none" THEN upper
        ELSE SliceAssign(upper.val, Max(N_vox - N, 0), N_vox,
                         Scale(Sqrt(alph), HR_nda_vec))

\* Faulty variant: the regularization term of the adjoint is weighted by alpha, not by
\* its square root.
_A_adj_TK0_NoSqrt(stacked_slices_nda_vec, alph) ==
    LET A_adj_y == A_adj_M(stacked_slices_nda_vec)
    IN  IF A_adj_y.err # "none" THEN A_adj_y
        ELSE Ok(VAdd(A_adj_y.val,
                     Scale(alph, LastN(stacked_slices_nda_vec, N_voxels_HR_volume))))

\* TikhonovSolver._A_adj_TK0
_A_adj_TK0(stacked_slices_nda_vec, alph) ==
    LET A_adj_y == A_adj_M(stacked_slices_nda_vec)
    IN  IF A_adj_y.err # "none" THEN A_adj_y
        ELSE Ok(VAdd(A_adj_y.val,
                     Scale(Sqrt(alph),
                           LastN(stacked_slices_nda_vec, N_voxels_HR_volume))))

\* Faulty variant: the gradient block is not weighted by sqrt(alpha).
_A_TK1_Unweighted(HR_nda_vec, N_vox, alph) ==
    LET N == N_voxels_HR_volume
        MA_x == MA(HR_nda_vec)
        upper == SliceAssign(Zeros(N_vox), 0, Max(N_vox - 3 * N, 0), MA_x.val)
    IN  IF MA_x.err # "none" THEN MA_x
        ELSE IF upper.err # "none" THEN upper
        ELSE SliceAssign(upper.val, Max(N_vox - 3 * N, 0), N_vox, D(HR_nda_vec))

\* TikhonovSolver._A_TK1
_A_TK1(HR_nda_vec, N_vox, alph) ==
    LET N == N_voxels_HR_volume
        MA_x == MA(HR_nda_vec)
        upper == SliceAssign(Zeros(N_vox), 0, Max(N_vox - 3 * N, 0), MA_x.val)
    IN  IF MA_x.err # "none" THEN MA_x
        ELSE IF upper.err # "none" THEN upper
        ELSE SliceAssign(upper.val, Max(N_vox - 3 * N, 0), N_vox,
                         Scale(Sqrt(alph), D(HR_nda_vec)))

\* Faulty variant: the gradient's adjoint is given the first 3*N_HR entries,
\* not the last ones.
_A_adj_TK1_Head(stacked_slices_nda_vec, alph) ==
    LET A_adj_y == A_adj_M(stacked_slices_nda_vec)
    IN  IF A_adj_y.err # "none" THEN A_adj_y
        ELSE Ok(VAdd(A_adj_y.val,
                     Scale(Sqrt(alph),
                           D_adj(SliceRead(stacked_slices_nda_vec, 0,
                                           3 * N_voxels_HR_volume)))))

\* TikhonovSolver._A_adj_TK1
_A_adj_TK1(stacked_slices_nda_vec, alph) ==
    LET A_adj_y == A_adj_M(stacked_slices_nda_vec)
    IN  IF A_adj_y.err # "none" THEN A_adj_y
        ELSE Ok(VAdd(A_adj_y.val,
                     Scale(Sqrt(alph), D_adj(stacked_slices_nda_vec))))

\* The closures A_fw and A_bw of run_reconstruction: they look up
\* self._A[self._reg_type] and self._A_adj[self._reg_type] when called.
A_fw(x) ==
    IF reg_type = "TK0" THEN _A_TK0(x, N_voxels, alpha)
    ELSE IF reg_type = "TK1" THEN _A_TK1(x, N_voxels, alpha)
    ELSE Err("KeyError")

A_bw(y) ==
    IF reg_type = "TK0" THEN _A_adj_TK0(y, alpha)
    ELSE IF reg_type = "TK1" THEN _A_adj_TK1(y, alpha)
    ELSE Err("KeyError")

\* Faulty variant: the gradient block is sized like the identity block.
NVoxels_OneBlock(reg) == N_total_slice_voxels + N_voxels_HR_volume

\* run_reconstruction: the number of rows of the augmented system.
NVoxels(reg) ==
    IF reg \in {"TK0"}
    THEN N_total_slice_voxels + N_voxels_HR_volume
    ELSE N_total_slice_voxels + 3 * N_voxels_HR_volume

\* ------------------------------------------------------------ scipy's lsqr
\* istop of lsqr: 0 while iterating (and when b or A*b is zero), 1..6 when
\* one of its convergence tests fires, 7 when iter_lim is reached.
ConvergedCodes == 1..6
IterLimitCode == 7

HasNaN(v) == \E p \in 1..Len(v) : v[p] = NaN
AllZero(v) == \A p \in 1..Len(v) : v[p] = 0

\* The values istop can have at the end of iteration k: the tests on nan
\* never fire.
StopCodes(k, iter_lim, nan) ==
    (IF k >= iter_lim THEN {IterLimitCode} ELSE {0})
    \cup (IF nan THEN {} ELSE ConvergedCodes)

\* ------------------------------------------- RegistrationSimpleITK: options
\* The lists the setters check their argument against; None is "None".
RegistrationTypes == {"Rigid", "Similarity", "Affine"}
InitializerTypes == {"None", "MOMENTS", "GEOMETRY"}
Interpolators == {"Linear", "NearestNeighbor", "BSpline"}
Metrics == {"MeanSquares", "Correlation", "ANTSNeighborhoodCorrelation",
            "JointHistogramMutualInformation", "MattesMutualInformation",
            "Demons"}
Optimizers == {"Amoeba", "RegularStepGradientDescent",
               "GradientDescentLineSearch", "ConjugateGradientLineSearch",
               "LBFGSB"}
ScalesEstimators == {"IndexShift", "PhysicalShift", "Jacobian"}

\* A params value: None, a string the caller gave, the string a setter fills
\* in for the named metric or optimizer, or the constructor's default string.
ParamsNone == [kind |-> "None", of |-> "none"]
ParamsGiven == [kind |-> "given", of |-> "none"]
ParamsDefault(name) == [kind |-> "default", of |-> name]
ParamsConstructor == [kind |-> "constructor", of |-> "ConjugateGradientLineSearch"]

\* A transform: the run that computed it and the metric the engine used then.
\* self._transform_sitk does not exist until a run has assigned it.
Undefined == [run |-> 0, metric |-> "none"]

\* What a call returns: None, a string or a transform.
RetNone == [str |-> "None", transform |-> Undefined]
RetStr(str) == [str |-> str, transform |-> Undefined]
RetTransform(t) == [str |-> "transform", transform |-> t]

\* RegistrationSimpleITK.__init__ with its default arguments.
RegistrationSimpleITK_init ==
    /\ registration_type = "Rigid"
    /\ interpolator = "Linear"
    /\ metric = "Correlation"
    /\ metric_params = ParamsNone
    /\ optimizer = "ConjugateGradientLineSearch"
    /\ optimizer_params = ParamsConstructor
    /\ scales_estimator = "PhysicalShift"
    /\ initializer_type = "None"
    /\ transform_sitk = Undefined
    /\ registration_method = [metric |-> "none", executes |-> 0]
    /\ run_id = 0
    /\ reg_pc = "idle"
    /\ reg_raised = "none"
    /\ reg_ret = RetNone
    /\ reg_call = [op |-> "__init__", arg |-> "none"]

\* ------------------------------------ resample_to_isotropic_grid: its entry
\* resample_to_isotropic_grid is entered with an image of sh slices of
\* thickness p2 and in-plane spacing p0, and interpolation order ord.
ResampleEntry(sh, p0, p2, ord) ==
    /\ shape2 = sh
    /\ pixdim0 = p0
    /\ pixdim2 = p2
    /\ order = ord
    /\ number_of_slices_target_through_plane = 0
    /\ data_target = <<>>
    /\ iso_i = 0
    /\ iso_j = 0
    /\ iso_pc = "entry"

\* ------------------------------------------------------------ the object
NoRes == [x |-> "none", istop |-> 0, itn |-> 0, nan |-> FALSE]
\* This run's call of lsqr: its arguments and, once it has returned, the
\* istop and itn of its result.
NoCall == [called |-> FALSE, iter_lim |-> 0, alpha |-> 0, reg_type |-> "none",
           returned |-> FALSE, istop |-> 0, itn |-> 0]
Returned(call, stop, n) ==
    [call EXCEPT !.returned = TRUE, !.istop = stop, !.itn = n]

Idle == pc \in {"Configured", "Done", "Failed"}

\* The locals of run_reconstruction are gone when it returns or raises.
ClearLocals ==
    /\ N_voxels' = 0
    /\ b' = <<>>
    /\ i_min' = 0
    /\ A' = <<>>
    /\ res' = NoRes

\* A call of run_reconstruction ends with exception e.
Fail(e) ==
    /\ pc' = "Failed"
    /\ raised' = e
    /\ ret' = "None"
    /\ ClearLocals
    /\ UNCHANGED <<object, config, HR_volume, lsqr_call, hr_start, hr_writes, probes, last_call,
      registration, resampling>>

\* A setter returns or raises; what is recorded about the last run is dropped.
SetterEnds(e) ==
    /\ pc' = IF e = "none" THEN "Configured" ELSE "Failed"
    /\ raised' = e
    /\ ret' = "None"
    /\ lsqr_call' = NoCall
    /\ hr_start' = HR_volume
    /\ hr_writes' = 0
    /\ UNCHANGED <<object, HR_volume, N_voxels, b, i_min, A, res, probes, registration, resampling>>

\* The masks of a stack set: at most one slice voxel is outside its mask.
MaskSets(shapes) ==
    {S \in SUBSET (1..SliceVoxels(shapes)) : Cardinality(S) <= 1}

\* TikhonovSolver.__init__ on a stack set and an HR volume of nhr voxels.
Construct(shapes, masked, nhr, a, it, rt) ==
    /\ stacks = MkStacks(shapes, masked, nhr)
    /\ HR_volume = [x |-> "estimate", itn |-> 0]
    /\ N_total_slice_voxels = TotalSliceVoxels(MkStacks(shapes, masked, nhr))
    /\ N_voxels_HR_volume = nhr
    /\ alpha = a
    /\ iter_max = it
    /\ reg_type = rt
    /\ pc = "Configured"
    /\ N_voxels = 0
    /\ b = <<>>
    /\ i_min = 0
    /\ A = <<>>
    /\ res = NoRes
    /\ raised = "none"
    /\ ret = "None"
    /\ lsqr_call = NoCall
    /\ hr_start = [x |-> "estimate", itn |-> 0]
    /\ hr_writes = 0
    /\ fw = <<>>
    /\ bw = <<>>
    /\ last_call = [op |-> "__init__", arg |-> rt]

\* Spec: a solver is constructed; the registration object and the resampling
\* are not used.
Init ==
    /\ \E shapes \in StackShapes(RunRows) :
         \E masked \in MaskSets(shapes), nhr \in 1..MaxHR :
           \E a \in AlphaVals, it \in IterMaxVals, rt \in RegTypes :
               Construct(shapes, masked, nhr, a, it, rt)
    /\ RegistrationSimpleITK_init
    /\ ResampleEntry(1, 1, 1, 0)

\* ---------------------------------------------------------------- setters
\* Faulty variant: the type is stored before it is checked.
set_regularization_type_StoresFirst(t) ==
    /\ Idle
    /\ last_call' = [op |-> "set_regularization_type", arg |-> t]
    /\ reg_type' = t
    /\ SetterEnds(IF t \notin {"TK0", "TK1"} THEN "ValueError" ELSE "none")
    /\ UNCHANGED <<alpha, iter_max>>

set_regularization_type(t) ==
    /\ Idle
    /\ last_call' = [op |-> "set_regularization_type", arg |-> t]
    /\ IF t \notin {"TK0", "TK1"}
       THEN /\ SetterEnds("ValueError")
            /\ UNCHANGED config
       ELSE /\ reg_type' = t
            /\ SetterEnds("none")
            /\ UNCHANGED <<alpha, iter_max>>

set_alpha(a) ==
    /\ Idle
    /\ last_call' = [op |-> "set_alpha", arg |-> "none"]
    /\ alpha' = a
    /\ SetterEnds("none")
    /\ UNCHANGED <<iter_max, reg_type>>

set_iter_max(n) ==
    /\ Idle
    /\ last_call' = [op |-> "set_iter_max", arg |-> "none"]
    /\ iter_max' = n
    /\ SetterEnds("none")
    /\ UNCHANGED <<alpha, reg_type>>

\* get_regularization_type returns self._reg_type.
get_regularization_type ==
    /\ Idle
    /\ last_call' = [op |-> "get_regularization_type", arg |-> "none"]
    /\ ret' = reg_type
    /\ pc' = "Configured"
    /\ raised' = "none"
    /\ lsqr_call' = NoCall
    /\ hr_start' = HR_volume
    /\ hr_writes' = 0
    /\ UNCHANGED <<object, config, HR_volume, N_voxels, b, i_min, A, res, probes,
                   registration, resampling>>

\* ------------------------------------------------------ run_reconstruction
\* Faulty variant: the row count is kept in the object, in place of the
\* constructor's count of the data rows.
RunStart_StoresRows ==
    /\ Idle
    /\ last_call' = [op |-> "run_reconstruction", arg |-> "none"]
    /\ pc' = "GetB"
    /\ N_voxels' = NVoxels(reg_type)
    /\ N_total_slice_voxels' = NVoxels(reg_type)
    /\ b' = <<>>
    /\ i_min' = 0
    /\ A' = <<>>
    /\ res' = NoRes
    /\ raised' = "none"
    /\ ret' = "None"
    /\ lsqr_call' = NoCall
    /\ hr_start' = HR_volume
    /\ hr_writes' = 0
    /\ UNCHANGED <<stacks, N_voxels_HR_volume, config, HR_volume, probes, registration, resampling>>

\* Entry: the number of rows of the augmented system.
RunStart ==
    /\ Idle
    /\ last_call' = [op |-> "run_reconstruction", arg |-> "none"]
    /\ pc' = "GetB"
    /\ N_voxels' = NVoxels(reg_type)
    /\ b' = <<>>
    /\ i_min' = 0
    /\ A' = <<>>
    /\ res' = NoRes
    /\ raised' = "none"
    /\ ret' = "None"
    /\ lsqr_call' = NoCall
    /\ hr_start' = HR_volume
    /\ hr_writes' = 0
    /\ UNCHANGED <<object, config, HR_volume, probes, registration, resampling>>

\* b = self._get_b(N_voxels)
GetB ==
    /\ pc = "GetB"
    /\ LET r == get_b(N_voxels)
       IN  IF r.err # "none"
           THEN Fail(r.err)
           ELSE /\ b' = r.val
                /\ i_min' = r.i_min
                /\ pc' = "BuildOp"
                /\ UNCHANGED <<object, config, HR_volume, N_voxels, A, res,
                               raised, ret, lsqr_call, hr_start, hr_writes, probes, last_call,
                                 registration, resampling>>

\* A = LinearOperator((N_voxels, N_HR), matvec=A_fw, rmatvec=A_bw). Whether
\* the constructor calls matvec on a zero vector to find the dtype depends on
\* the scipy release.
BuildOperator ==
    /\ pc = "BuildOp"
    /\ \E probe \in BOOLEAN :
         LET r == A_fw(Zeros(N_voxels_HR_volume))
         IN  IF probe /\ r.err # "none"
             THEN Fail(r.err)
             ELSE /\ A' = <<N_voxels, N_voxels_HR_volume>>
                  /\ pc' = "CallLsqr"
                  /\ UNCHANGED <<object, config, HR_volume, N_voxels, b, i_min, res,
                                 raised, ret, lsqr_call, hr_start, hr_writes, probes, last_call,
                                   registration, resampling>>

\* lsqr(A, b, iter_lim=self._iter_max) up to its loop: x = 0; v = A.rmatvec(u)
\* unless b is zero; it returns at once when A*b is zero.
\* Faulty variant: iter_lim is not passed, and lsqr falls back on its default 2*n.
ThisCall_NoIterLim ==
    [called |-> TRUE, iter_lim |-> 2 * N_voxels_HR_volume, alpha |-> alpha,
     reg_type |-> reg_type, returned |-> FALSE, istop |-> 0, itn |-> 0]

ThisCall == [called |-> TRUE, iter_lim |-> iter_max, alpha |-> alpha,
             reg_type |-> reg_type, returned |-> FALSE, istop |-> 0, itn |-> 0]

LsqrEnter ==
    /\ pc = "CallLsqr"
    /\ LET v == IF AllZero(b) THEN Ok(Zeros(N_voxels_HR_volume)) ELSE A_bw(b)
       IN  IF v.err # "none"
           THEN /\ pc' = "Failed"
                /\ raised' = v.err
                /\ ret' = "None"
                /\ ClearLocals
                /\ lsqr_call' = ThisCall
                /\ UNCHANGED <<object, config, HR_volume, hr_start, hr_writes, probes, last_call,
                  registration, resampling>>
           ELSE /\ lsqr_call' = IF AllZero(v.val) THEN Returned(ThisCall, 0, 0)
                                ELSE ThisCall
                /\ res' = [x |-> "zeros", istop |-> 0, itn |-> 0,
                           nan |-> HasNaN(v.val)]
                /\ pc' = IF AllZero(v.val) THEN "LsqrRet" ELSE "LsqrLoop"
                /\ UNCHANGED <<object, config, HR_volume, N_voxels, b, i_min, A,
                               raised, ret, hr_start, hr_writes, probes, last_call,
                                 registration, resampling>>

\* One pass of  while itn < iter_lim:  u = A.matvec(v) - ..., v = A.rmatvec(u)
\* - ..., x = x + t1*w, the stopping tests, break when istop != 0.
LsqrIter ==
    /\ pc = "LsqrLoop"
    /\ res.itn < lsqr_call.iter_lim
    /\ LET u == A_fw(Zeros(N_voxels_HR_volume))
           v == A_bw(b)
       IN  IF u.err # "none" THEN Fail(u.err)
           ELSE IF v.err # "none" THEN Fail(v.err)
           ELSE \E stop \in StopCodes(res.itn + 1, lsqr_call.iter_lim, res.nan) :
                  /\ res' = [x |-> IF res.nan THEN "nan" ELSE "iterate",
                             istop |-> stop, itn |-> res.itn + 1, nan |-> res.nan]
                  /\ pc' = IF stop # 0 THEN "LsqrRet" ELSE "LsqrLoop"
                  /\ lsqr_call' = IF stop # 0
                                  THEN Returned(lsqr_call, stop, res.itn + 1)
                                  ELSE lsqr_call
                  /\ UNCHANGED <<object, config, HR_volume, N_voxels, b, i_min, A,
                                 raised, ret, hr_start, hr_writes, probes, last_call,
                                   registration, resampling>>

\* The loop condition itn < iter_lim is false.
LsqrLoopExit ==
    /\ pc = "LsqrLoop"
    /\ ~(res.itn < lsqr_call.iter_lim)
    /\ pc' = "LsqrRet"
    /\ lsqr_call' = Returned(lsqr_call, res.istop, res.itn)
    /\ UNCHANGED <<object, config, HR_volume, N_voxels, b, i_min, A, res,
                   raised, ret, hr_start, hr_writes, probes, last_call,
                     registration, resampling>>

\* HR_nda_vec = res[0]; self._HR_volume.itk and .sitk are set from it; the
\* method returns None.
\* Faulty variant: the volume is updated from inside the solver's loop.
SolverReturned_WhileIterating == pc \in {"LsqrLoop", "LsqrRet"}

\* res = lsqr(...) has returned.
SolverReturned == pc = "LsqrRet"

\* Faulty variant: stopping at the iteration limit is treated as a failure.
WriteBack_RaisesAtLimit ==
    /\ SolverReturned
    /\ IF res.istop = IterLimitCode
       THEN Fail("RuntimeError")
       ELSE /\ HR_volume' = [x |-> res.x, itn |-> res.itn]
            /\ hr_writes' = hr_writes + 1
            /\ pc' = "Done"
            /\ raised' = "none"
            /\ ret' = "None"
            /\ ClearLocals
            /\ UNCHANGED <<object, config, lsqr_call, hr_start, probes, last_call,
              registration, resampling>>

\* Faulty variant: a volume that a run has already reconstructed is not written again.
WriteBack_KeepsFirst ==
    /\ SolverReturned
    /\ HR_volume' = IF hr_start.x = "estimate"
                    THEN [x |-> res.x, itn |-> res.itn]
                    ELSE HR_volume
    /\ hr_writes' = hr_writes + 1
    /\ pc' = "Done"
    /\ raised' = "none"
    /\ ret' = "None"
    /\ ClearLocals
    /\ UNCHANGED <<object, config, lsqr_call, hr_start, probes, last_call,
      registration, resampling>>

WriteBack ==
    /\ SolverReturned
    /\ HR_volume' = [x |-> res.x, itn |-> res.itn]
    /\ hr_writes' = hr_writes + 1
    /\ pc' = "Done"
    /\ raised' = "none"
    /\ ret' = "None"
    /\ ClearLocals
    /\ UNCHANGED <<object, config, lsqr_call, hr_start, probes, last_call,
      registration, resampling>>

RunStep == GetB \/ BuildOperator \/ LsqrEnter \/ LsqrIter \/ LsqrLoopExit \/ WriteBack

Next ==
    \/ \E t \in RegTypes : set_regularization_type(t)
    \/ \E a \in AlphaVals : set_alpha(a)
    \/ \E n \in IterMaxVals : set_iter_max(n)
    \/ get_regularization_type
    \/ RunStart
    \/ GetB
    \/ BuildOperator
    \/ LsqrEnter
    \/ LsqrIter
    \/ LsqrLoopExit
    \/ WriteBack

Spec == Init /\ [][Next]_vars

\* ------------------------------------------------------------------ SpecSys
\* Probe vectors of length n: the unit vectors and the ramp 1, 2, ..., n.
Unit(n, k) == [p \in 1..n |-> IF p = k THEN 1 ELSE 0]
Ramp(n) == [p \in 1..n |-> p]
ProbeVectors(n) == {Unit(n, k) : k \in 1..n} \cup {Ramp(n)}

\* The constructor's default iteration limit.
DefaultIterMax == 10

InitSys ==
    /\ \E shapes \in StackShapes(MaxRows) :
         \E masked \in MaskSets(shapes), nhr \in 1..MaxHR :
           \E a \in AlphaVals, rt \in RegTypes :
               Construct(shapes, masked, nhr, a, DefaultIterMax, rt)
    /\ RegistrationSimpleITK_init
    /\ ResampleEntry(1, 1, 1, 0)

\* The solver applies A.matvec to HR-sized vectors and A.rmatvec to vectors
\* of the row length: here to every probe vector.
ApplyOperator ==
    /\ pc = "CallLsqr"
    /\ fw' = [x \in ProbeVectors(A[2]) |-> A_fw(x)]
    /\ bw' = [y \in ProbeVectors(A[1]) |-> A_bw(y)]
    /\ pc' = "Applied"
    /\ UNCHANGED <<object, config, HR_volume, N_voxels, b, i_min, A, res,
                   raised, ret, lsqr_call, hr_start, hr_writes, last_call,
                   registration, resampling>>

NextSys ==
    \/ RunStart
    \/ GetB
    \/ BuildOperator
    \/ ApplyOperator

SpecSys == InitSys /\ [][NextSys]_vars

\* ------------------------------------------------------------------ SpecReg
\* Largest number of calls of run_registration.
MaxRuns == 2

\* The arguments the setters are called with: listed values and one that is
\* not listed.
RegistrationTypeArgs == {"Affine", "Elastic"}
InitializerTypeArgs == {"GEOMETRY", "CENTER"}
InterpolatorArgs == {"NearestNeighbor", "Cubic"}
MetricArgs == {"ANTSNeighborhoodCorrelation", "SSD"}
OptimizerArgs == Optimizers \cup {"Adam"}
ScalesEstimatorArgs == {"Jacobian", "Unit"}
ParamsArgs == {ParamsNone, ParamsGiven}

\* The solver used while the registration object or the resampling is
\* exercised: constructed and left alone.
SolverAtRest ==
    Construct(<<[inplane |-> 1, zdim |-> 1, nslices |-> 1]>>, {}, 1, 0,
              DefaultIterMax, "TK1")

InitReg ==
    /\ SolverAtRest
    /\ RegistrationSimpleITK_init
    /\ ResampleEntry(1, 1, 1, 0)

\* No call of run_registration is in progress.
RegIdle == reg_pc = "idle"

\* A setter or getter ends: it returned r or raised e.
RegCallEnds(op, arg, e, r) ==
    /\ reg_call' = [op |-> op, arg |-> arg]
    /\ reg_raised' = e
    /\ reg_ret' = r
    /\ UNCHANGED <<transform_sitk, registration_method, run_id, reg_pc,
                   solver, resampling>>

set_registration_type(t) ==
    /\ RegIdle
    /\ IF t \notin RegistrationTypes
       THEN /\ RegCallEnds("set_registration_type", t, "ValueError", RetNone)
            /\ UNCHANGED registration_type
       ELSE /\ registration_type' = t
            /\ RegCallEnds("set_registration_type", t, "none", RetNone)
    /\ UNCHANGED <<interpolator, metric, metric_params, optimizer,
                   optimizer_params, scales_estimator, initializer_type>>

\* return registration_type: no such name is defined in the method or the
\* module.
get_registration_type ==
    /\ RegIdle
    /\ RegCallEnds("get_registration_type", "none", "NameError", RetNone)
    /\ UNCHANGED <<registration_type, interpolator, metric, metric_params,
                   optimizer, optimizer_params, scales_estimator,
                   initializer_type>>

set_initializer_type(t) ==
    /\ RegIdle
    /\ IF t \notin InitializerTypes
       THEN /\ RegCallEnds("set_initializer_type", t, "ValueError", RetNone)
            /\ UNCHANGED initializer_type
       ELSE /\ initializer_type' = t
            /\ RegCallEnds("set_initializer_type", t, "none", RetNone)
    /\ UNCHANGED <<registration_type, interpolator, metric, metric_params,
                   optimizer, optimizer_params, scales_estimator>>

\* return self._transform_sitk
get_registration_transform_sitk ==
    /\ RegIdle
    /\ IF transform_sitk = Undefined
       THEN RegCallEnds("get_registration_transform_sitk", "none",
                        "AttributeError", RetNone)
       ELSE RegCallEnds("get_registration_transform_sitk", "none", "none",
                        RetTransform(transform_sitk))
    /\ UNCHANGED <<registration_type, interpolator, metric, metric_params,
                   optimizer, optimizer_params, scales_estimator,
                   initializer_type>>

set_interpolator(interpolator_type) ==
    /\ RegIdle
    /\ IF interpolator_type \notin Interpolators
       THEN /\ RegCallEnds("set_interpolator", interpolator_type, "ValueError",
                           RetNone)
            /\ UNCHANGED interpolator
       ELSE /\ interpolator' = interpolator_type
            /\ RegCallEnds("set_interpolator", interpolator_type, "none", RetNone)
    /\ UNCHANGED <<registration_type, metric, metric_params, optimizer,
                   optimizer_params, scales_estimator, initializer_type>>

set_metric(m, params) ==
    /\ RegIdle
    /\ IF m \notin Metrics
       THEN /\ RegCallEnds("set_metric", m, "ValueError", RetNone)
            /\ UNCHANGED <<metric, metric_params>>
       ELSE /\ metric' = m
            /\ metric_params' =
                  IF m \in {"ANTSNeighborhoodCorrelation"} /\ params = ParamsNone
                  THEN ParamsDefault(m)
                  ELSE params
            /\ RegCallEnds("set_metric", m, "none", RetNone)
    /\ UNCHANGED <<registration_type, interpolator, optimizer, optimizer_params,
                   scales_estimator, initializer_type>>

\* Faulty variant: the chain of defaults has no branch for LBFGSB.
set_optimizer_NoLBFGSBDefault(o, params) ==
    /\ RegIdle
    /\ IF o \notin Optimizers
       THEN /\ RegCallEnds("set_optimizer", o, "ValueError", RetNone)
            /\ UNCHANGED <<optimizer, optimizer_params>>
       ELSE /\ optimizer' = o
            /\ optimizer_params' =
                  IF o \in {"Amoeba"} /\ params = ParamsNone
                  THEN ParamsDefault("Amoeba")
                  ELSE IF o \in {"RegularStepGradientDescent"} /\ params = ParamsNone
                  THEN ParamsDefault("RegularStepGradientDescent")
                  ELSE IF o \in {"GradientDescentLineSearch"} /\ params = ParamsNone
                  THEN ParamsDefault("GradientDescentLineSearch")
                  ELSE IF o \in {"ConjugateGradientLineSearch"} /\ params = ParamsNone
                  THEN ParamsDefault("ConjugateGradientLineSearch")
                  ELSE params
            /\ RegCallEnds("set_optimizer", o, "none", RetNone)
    /\ UNCHANGED <<registration_type, interpolator, metric, metric_params,
                   scales_estimator, initializer_type>>

set_optimizer(o, params) ==
    /\ RegIdle
    /\ IF o \notin Optimizers
       THEN /\ RegCallEnds("set_optimizer", o, "ValueError", RetNone)
            /\ UNCHANGED <<optimizer, optimizer_params>>
       ELSE /\ optimizer' = o
            /\ optimizer_params' =
                  IF o \in {"Amoeba"} /\ params = ParamsNone
                  THEN ParamsDefault("Amoeba")
                  ELSE IF o \in {"RegularStepGradientDescent"} /\ params = ParamsNone
                  THEN ParamsDefault("RegularStepGradientDescent")
                  ELSE IF o \in {"GradientDescentLineSearch"} /\ params = ParamsNone
                  THEN ParamsDefault("GradientDescentLineSearch")
                  ELSE IF o \in {"ConjugateGradientLineSearch"} /\ params = ParamsNone
                  THEN ParamsDefault("ConjugateGradientLineSearch")
                  ELSE IF o \in {"LBFGSB"} /\ params = ParamsNone
                  THEN ParamsDefault("LBFGSB")
                  ELSE params
            /\ RegCallEnds("set_optimizer", o, "none", RetNone)
    /\ UNCHANGED <<registration_type, interpolator, metric, metric_params,
                   scales_estimator, initializer_type>>

set_scales_estimator(e) ==
    /\ RegIdle
    /\ IF e \notin ScalesEstimators
       THEN /\ RegCallEnds("set_scales_estimator", e, "ValueError", RetNone)
            /\ UNCHANGED scales_estimator
       ELSE /\ scales_estimator' = e
            /\ RegCallEnds("set_scales_estimator", e, "none", RetNone)
    /\ UNCHANGED <<registration_type, interpolator, metric, metric_params,
                   optimizer, optimizer_params, initializer_type>>

\* The stored options.
options == <<registration_type, interpolator, metric, metric_params, optimizer,
             optimizer_params, scales_estimator, initializer_type>>

\* run_registration, _run_registration up to Execute: the engine is set up
\* from the stored options. literal_eval(self._optimizer_params) raises
\* ValueError when the params are None.
run_registration ==
    /\ RegIdle
    /\ run_id < MaxRuns
    /\ run_id' = run_id + 1
    /\ reg_call' = [op |-> "run_registration", arg |-> "none"]
    /\ reg_ret' = RetNone
    /\ IF optimizer_params = ParamsNone
       THEN /\ reg_raised' = "ValueError"
            /\ UNCHANGED <<registration_method, reg_pc>>
       ELSE /\ reg_raised' = "none"
            /\ registration_method' = [metric |-> metric, executes |-> 0]
            /\ reg_pc' = "Execute"
    /\ UNCHANGED <<options, transform_sitk, solver, resampling>>

\* try: registration_method.Execute(...): it returns a transform or raises
\* RuntimeError; the handler prints the message and sets the engine's metric to
\* Correlation.
Execute ==
    /\ reg_pc = "Execute"
    /\ \E ok \in BOOLEAN :
         /\ registration_method' =
               [metric |-> IF ok THEN registration_method.metric ELSE "Correlation",
                executes |-> registration_method.executes + 1]
         /\ reg_pc' = IF ok THEN "Convert" ELSE "Retry"
    /\ UNCHANGED <<options, transform_sitk, run_id, reg_raised, reg_ret, reg_call,
                   solver, resampling>>

\* Faulty variant: a failure of the second Execute is swallowed.
ExecuteAgain_Swallows ==
    /\ reg_pc = "Retry"
    /\ registration_method' =
          [registration_method EXCEPT !.executes = registration_method.executes + 1]
    /\ \E ok \in BOOLEAN :
         /\ reg_pc' = IF ok THEN "Convert" ELSE "idle"
         /\ reg_raised' = "none"
    /\ UNCHANGED <<options, transform_sitk, run_id, reg_ret, reg_call,
                   solver, resampling>>

\* The Execute of the except block: its RuntimeError leaves _run_registration.
ExecuteAgain ==
    /\ reg_pc = "Retry"
    /\ registration_method' =
          [registration_method EXCEPT !.executes = registration_method.executes + 1]
    /\ \E ok \in BOOLEAN :
         /\ reg_pc' = IF ok THEN "Convert" ELSE "idle"
         /\ reg_raised' = IF ok THEN "none" ELSE "RuntimeError"
    /\ UNCHANGED <<options, transform_sitk, run_id, reg_ret, reg_call,
                   solver, resampling>>

\* The transform is converted to the registration type's class and stored.
StoreTransform ==
    /\ reg_pc = "Convert"
    /\ transform_sitk' = [run |-> run_id, metric |-> registration_method.metric]
    /\ reg_pc' = "idle"
    /\ UNCHANGED <<options, registration_method, run_id, reg_raised, reg_ret,
                   reg_call, solver, resampling>>

NextReg ==
    \/ \E t \in RegistrationTypeArgs : set_registration_type(t)
    \/ get_registration_type
    \/ \E t \in InitializerTypeArgs : set_initializer_type(t)
    \/ get_registration_transform_sitk
    \/ \E t \in InterpolatorArgs : set_interpolator(t)
    \/ \E m \in MetricArgs, params \in ParamsArgs : set_metric(m, params)
    \/ \E o \in OptimizerArgs, params \in ParamsArgs : set_optimizer(o, params)
    \/ \E e \in ScalesEstimatorArgs : set_scales_estimator(e)
    \/ run_registration
    \/ Execute
    \/ ExecuteAgain
    \/ StoreTransform

SpecReg == InitReg /\ [][NextReg]_vars

\* ------------------------------------------------------------------ SpecIso
\* Registration.resample_to_isotropic_grid on images of a few small and two
\* large slice counts; spacings are whole numbers of a common unit.
MaxShape2 == 4
MaxPixdim2 == 4

Shape2Vals == (1..MaxShape2) \cup {64, 100}
Pixdim0Vals == {1, 2}
Pixdim2Vals == 1..MaxPixdim2
OrderVals == {0, 1}

\* np.ceil(a / float(d)) for positive a and d
Ceil(a, d) == (a + d - 1) \div d

\* .astype(np.uint8) of a non-negative float: the value itself up to 255;
\* beyond that the conversion is undefined in C, and builds give the value
\* modulo 256 or the largest uint8.
Uint8Cast(v) == IF v <= 255 THEN {v} ELSE {v % 256, 255}

InitIso ==
    /\ SolverAtRest
    /\ RegistrationSimpleITK_init
    /\ \E sh \in Shape2Vals, p0 \in Pixdim0Vals, p2 \in Pixdim2Vals,
          ord \in OrderVals :
          ResampleEntry(sh, p0, p2, ord)

\* length_through_plane, number_of_slices_target_through_plane and the
\* zero-filled data_target.
CountSlices ==
    /\ iso_pc = "entry"
    /\ \E n \in Uint8Cast(Ceil(shape2 * pixdim2, pixdim0)) :
         /\ number_of_slices_target_through_plane' = n
         /\ data_target' = Zeros(n)
    /\ iso_i' = 0
    /\ iso_j' = 0
    /\ iso_pc' = IF order = 0 THEN "loop" ELSE "store"
    /\ UNCHANGED <<shape2, pixdim0, pixdim2, order, solver, registration>>

\* One pass of  for j in range(0, number_of_slices_target_through_plane):
\* j > (i+1)*pixdim[2]/pixdim[0] is compared after multiplying by pixdim[0].
NearestNeighbour ==
    /\ iso_pc = "loop"
    /\ iso_j < number_of_slices_target_through_plane
    /\ LET i_next == IF /\ iso_j * pixdim0 > (iso_i + 1) * pixdim2
                        /\ iso_i < shape2 - 1
                     THEN iso_i + 1
                     ELSE iso_i
       IN  /\ iso_i' = i_next
           /\ data_target' = [data_target EXCEPT ![iso_j + 1] = i_next + 1]
    /\ iso_j' = iso_j + 1
    /\ UNCHANGED <<shape2, pixdim0, pixdim2, order,
                   number_of_slices_target_through_plane, iso_pc, solver,
                   registration>>

\* The range is exhausted.
LoopEnds ==
    /\ iso_pc = "loop"
    /\ iso_j >= number_of_slices_target_through_plane
    /\ iso_pc' = "store"
    /\ UNCHANGED <<shape2, pixdim0, pixdim2, order,
                   number_of_slices_target_through_plane, data_target, iso_i,
                   iso_j, solver, registration>>

\* data_target is stored as a nifti image of isotropic spacing pixdim[0] and
\* saved.
StoreTarget ==
    /\ iso_pc = "store"
    /\ iso_pc' = "done"
    /\ UNCHANGED <<shape2, pixdim0, pixdim2, order,
                   number_of_slices_target_through_plane, data_target, iso_i,
                   iso_j, solver, registration>>

NextIso ==
    \/ CountSlices
    \/ NearestNeighbour
    \/ LoopEnds
    \/ StoreTarget

SpecIso == InitIso /\ [][NextIso]_vars

\* =================================================================== claims
\* The four states of the orchestrator; a run that raised is Failed.
Phase ==
    IF pc \in {"GetB", "BuildOp", "CallLsqr"} THEN "Assembling"
    ELSE IF pc \in {"LsqrLoop", "LsqrRet"} THEN "Solving"
    ELSE pc

ValidType == reg_type \in {"TK0", "TK1"}

\* A run that has gone past the entry of run_reconstruction without raising
\* a configuration error: b is built, or lsqr is called, or the run is done.
PastAssemblyStart ==
    \/ b # <<>>
    \/ lsqr_call.called
    \/ pc \in {"BuildOp", "CallLsqr", "LsqrLoop", "LsqrRet", "Done"}

\* C1: with a regularization type other than 'TK0' and 'TK1' a run never
\* builds b, never calls the solver and never changes the HR volume: it ends
\* in a configuration error (ValueError) before that.
C1_UnknownTypeIsFatalBeforeAssembly ==
    ~ValidType =>
        /\ ~PastAssemblyStart
        /\ HR_volume = hr_start
        /\ (pc = "Failed" => raised = "ValueError")

\* C2: with alpha < 0 a run never calls the solver and never changes the HR
\* volume.
C2_NegativeAlphaIsFatalBeforeSolve ==
    alpha < 0 =>
        /\ ~lsqr_call.called
        /\ pc \notin {"LsqrLoop", "LsqrRet", "Done"}
        /\ HR_volume = hr_start

\* C3: with iter_max <= 0 a run never calls the solver and never changes the
\* HR volume.
C3_NonPositiveIterMaxIsFatalBeforeSolve ==
    iter_max <= 0 =>
        /\ ~lsqr_call.called
        /\ pc \notin {"LsqrLoop", "LsqrRet", "Done"}
        /\ HR_volume = hr_start

\* The order of the phases: a run starts from an idle object, assembles,
\* solves and is done; it leaves Assembling or Solving early only by raising.
PhaseOrder ==
    {<<"Configured", "Assembling">>, <<"Done", "Assembling">>,
     <<"Failed", "Assembling">>, <<"Assembling", "Solving">>,
     <<"Solving", "Done">>, <<"Assembling", "Failed">>, <<"Solving", "Failed">>,
     <<"Done", "Configured">>, <<"Failed", "Configured">>,
     <<"Configured", "Failed">>, <<"Done", "Failed">>}

PhaseOf(p) ==
    IF p \in {"GetB", "BuildOp", "CallLsqr"} THEN "Assembling"
    ELSE IF p \in {"LsqrLoop", "LsqrRet"} THEN "Solving"
    ELSE p

\* C4: the phases of a run follow Configured -> Assembling -> Solving -> Done,
\* the HR volume is not written while assembling or solving, and it is written
\* once per run: in the step that follows the return of the solver and ends
\* the run.
C4_PhaseOrderAndSingleWrite ==
    /\ [][/\ PhaseOf(pc') # PhaseOf(pc) => <<PhaseOf(pc), PhaseOf(pc')>> \in PhaseOrder
          /\ (HR_volume' # HR_volume \/ hr_writes' > hr_writes)
                => /\ pc = "LsqrRet"
                   /\ lsqr_call.returned
                   /\ pc' = "Done"
                   /\ hr_writes' = 1]_vars
    /\ [](/\ Phase \in {"Assembling", "Solving"}
              => (hr_writes = 0 /\ HR_volume = hr_start)
          /\ pc = "Done" => hr_writes = 1
          /\ hr_writes <= 1)

C4_Witness ==
    /\ pc = "Done"
    /\ hr_writes = 1
    /\ HR_volume # hr_start
    /\ HR_volume.x = "iterate"

\* Every stack has as many slices as its image has along the slice dimension.
Consistent == \A i \in 1..Len(stacks) : Len(stacks[i].slices) = stacks[i].size[3]

\* C5: with iter_max > 0 the solver never performs more than iter_max
\* iterations and the solve ends: every pass of the loop that stays in the
\* loop adds one to the iteration count, which iter_max bounds; once the
\* solver has returned the next step ends the run in Done with the last
\* iterate in the HR volume; and
\* a solve is left by an exception only when an operator raised (which takes
\* an unknown type or a stack whose slice list does not match its image).
\* With iter_max = 1 the result is an iterate of at most one iteration.
C5_IterationCap ==
    /\ [](iter_max > 0 =>
            /\ res.itn <= iter_max
            /\ lsqr_call.itn <= iter_max
            /\ (pc = "Done" => HR_volume.itn <= iter_max))
    /\ [][(Phase = "Solving" /\ iter_max > 0) =>
            /\ (pc = "LsqrLoop" /\ pc' = "LsqrLoop") => res'.itn = res.itn + 1
            /\ pc' \in {"LsqrLoop", "LsqrRet", "Done", "Failed"}
            /\ pc = "LsqrRet" => (pc' = "Done" /\ HR_volume'.itn = res.itn)
            /\ pc' = "Failed" => (~ValidType \/ ~Consistent)]_vars

C5_Witness ==
    /\ pc = "Done"
    /\ iter_max = 1
    /\ lsqr_call.istop = IterLimitCode
    /\ HR_volume = [x |-> "iterate", itn |-> 1]

\* C6 as claimed: a run that stops at the iteration limit returns the iterate
\* together with the stopping reason, and keeps the iteration count of the
\* run for its accessors.
C6_DiagnosticsReturned ==
    [][(pc = "LsqrRet" /\ res.istop = IterLimitCode /\ pc' = "Done")
          => (ret' # "None" /\ res'.itn = res.itn)]_vars

\* C6 as amended: a run that stops at the iteration limit does not fail: the
\* next step writes the last iterate to the HR volume and ends the run without
\* an exception; run_reconstruction returns None and the solver's stopping
\* reason and iteration count are dropped with its locals.
C6_IterLimitIsNotAnError ==
    [][(pc = "LsqrRet" /\ res.istop = IterLimitCode)
          => /\ pc' = "Done"
             /\ raised' = "none"
             /\ HR_volume' = [x |-> res.x, itn |-> res.itn]
             /\ ret' = "None"
             /\ res' = NoRes]_vars

C6_Witness ==
    /\ pc = "Done"
    /\ raised = "none"
    /\ lsqr_call.istop = IterLimitCode
    /\ HR_volume.itn = lsqr_call.iter_lim
    /\ HR_volume.x = "iterate"

\* ------------------------------------------------- the augmented system
\* Size of the regularization block: N_HR for TK0, 3*N_HR for TK1.
RegBlock == IF reg_type = "TK0" THEN N_voxels_HR_volume ELSE 3 * N_voxels_HR_volume

\* C7: for TK0 and TK1, b and every forward output have N_total_slice_voxels
\* plus the size of the regularization block entries, every adjoint output has
\* N_HR entries, and the operator is declared with that many rows and N_HR
\* columns.
C7_Dimensions ==
    ValidType =>
        /\ b # <<>> => Len(b) = N_total_slice_voxels + RegBlock
        /\ A # <<>> => A = <<N_total_slice_voxels + RegBlock, N_voxels_HR_volume>>
        /\ \A x \in DOMAIN fw :
              fw[x].err = "none" => Len(fw[x].val) = N_total_slice_voxels + RegBlock
        /\ \A y \in DOMAIN bw :
              bw[y].err = "none" => Len(bw[y].val) = N_voxels_HR_volume

C7_Witness ==
    /\ pc = "Applied"
    /\ reg_type = "TK1"
    /\ Len(stacks) = 2
    /\ N_voxels_HR_volume = 2
    /\ Len(b) = N_total_slice_voxels + 6
    /\ \A x \in DOMAIN fw : fw[x].err = "none"
    /\ \A y \in DOMAIN bw : bw[y].err = "none"

RECURSIVE MaskedSlices(_, _)
\* M_1 y_1; ...; M_j y_j of one slice list.
MaskedSlices(sl, j) ==
    IF j = 0 THEN <<>>
    ELSE MaskedSlices(sl, j - 1)
         \o [v \in 1..Len(sl[j].y) |-> sl[j].m[v] * sl[j].y[v]]

RECURSIVE MaskedStacks(_, _)
\* The masked slice data of stacks 1..i, in stack order and slice order.
MaskedStacks(st, i) ==
    IF i = 0 THEN <<>>
    ELSE MaskedStacks(st, i - 1) \o MaskedSlices(st[i].slices, Len(st[i].slices))

RECURSIVE WrittenVoxels(_, _)
\* The voxels _get_b writes for stacks 1..i: per stack get_number_of_slices()
\* blocks of the size of its first slice.
WrittenVoxels(st, i) ==
    IF i = 0 THEN 0
    ELSE WrittenVoxels(st, i - 1)
         + Len(st[i].slices) * Prod(st[i].slices[1].size)

\* C9: for every stack set the constructor's N_total_slice_voxels is the
\* number of voxels _get_b writes, so that _get_b ends with
\* i_min = N_total_slice_voxels and leaves the regularization block of b zero.
C9_RowCountIsWrittenVoxels ==
    /\ N_total_slice_voxels = WrittenVoxels(stacks, Len(stacks))
    /\ pc = "BuildOp" =>
          /\ i_min = N_total_slice_voxels
          /\ AllZero(LastN(b, Len(b) - N_total_slice_voxels))

\* MA and A_adj_M, and D and D_adj, are adjoint pairs on the probe vectors.
AdjointPairs ==
    \A x \in ProbeVectors(N_voxels_HR_volume), y \in ProbeVectors(N_voxels) :
        /\ MA(x).err = "none"
        /\ A_adj_M(y).err = "none"
        /\ Dot(MA(x).val, SliceRead(y, 0, N_total_slice_voxels))
              = Dot(x, A_adj_M(y).val)
        /\ Len(y) >= 3 * N_voxels_HR_volume
              => Dot(D(x), LastN(y, 3 * N_voxels_HR_volume)) = Dot(x, D_adj(y))

\* C10: for TK0 and TK1 and alpha >= 0, given that MA / A_adj_M and D / D_adj
\* are adjoint pairs, <A x, y> = <x, A* y> for every HR-sized probe x and
\* every probe y of the row length.
C10_AdjointConsistency ==
    (pc = "Applied" /\ ValidType /\ alpha >= 0 /\ AdjointPairs) =>
        \A x \in DOMAIN fw, y \in DOMAIN bw :
            /\ fw[x].err = "none"
            /\ bw[y].err = "none"
            /\ Dot(fw[x].val, y) = Dot(x, bw[y].val)

C10_Witness ==
    /\ pc = "Applied"
    /\ reg_type = "TK0"
    /\ alpha = 4
    /\ AdjointPairs
    /\ Len(stacks) = 2
    /\ \E x \in DOMAIN fw, y \in DOMAIN bw :
          /\ Dot(fw[x].val, y) = Dot(x, bw[y].val)
          /\ Dot(SliceRead(fw[x].val, 0, N_total_slice_voxels),
                 SliceRead(y, 0, N_total_slice_voxels)) # 0
          /\ Dot(LastN(fw[x].val, N_voxels_HR_volume),
                 LastN(y, N_voxels_HR_volume)) # 0

\* The data blocks of y (its first N_total_slice_voxels entries) and its
\* regularization block y_tail (its last RegBlock entries).
DataBlocks(y) == SliceRead(y, 0, N_total_slice_voxels)
RegTail(y) == LastN(y, RegBlock)

\* G* y_tail: y_tail itself for TK0, D* y_tail for TK1.
G_adj(y_tail) == IF reg_type = "TK0" THEN y_tail ELSE D_adj(y_tail)

RECURSIVE SliceMasks(_, _)
\* The masks of slices 1..j of one slice list, one after the other.
SliceMasks(sl, j) == IF j = 0 THEN <<>> ELSE SliceMasks(sl, j - 1) \o sl[j].m

RECURSIVE StackMasks(_, _)
\* The masks of the slices of stacks 1..i, in stack order and slice order.
StackMasks(st, i) ==
    IF i = 0 THEN <<>>
    ELSE StackMasks(st, i - 1) \o SliceMasks(st[i].slices, Len(st[i].slices))

\* The rows of the system that belong to voxels outside their slice's mask.
MaskedOut ==
    LET mk == StackMasks(stacks, Len(stacks))
    IN  {p \in 1..Len(mk) : mk[p] = 0}

\* The same stacks with other intensities at the voxels outside the masks.
OtherIntensities(st) ==
    [i \in 1..Len(st) |->
        [size |-> st[i].size,
         slices |->
            [j \in 1..Len(st[i].slices) |->
                [size |-> st[i].slices[j].size,
                 y |-> [v \in 1..Len(st[i].slices[j].y) |->
                          IF st[i].slices[j].m[v] = 0
                          THEN st[i].slices[j].y[v] + 7
                          ELSE st[i].slices[j].y[v]],
                 m |-> st[i].slices[j].m,
                 a |-> st[i].slices[j].a]]]]

\* The same vector with other entries at the rows outside the masks.
OtherEntries(y) ==
    [p \in 1..Len(y) |-> IF p \in MaskedOut THEN y[p] + 5 ELSE y[p]]

RunTaking == (Idle /\ pc' = "GetB") \/ ~Idle

\* C14: no step of run_reconstruction, whether the run ends in Done or in an
\* exception, changes the stacks (slices and masks included), the cached voxel
\* counts, the regularization type, alpha or iter_max; what lsqr was called
\* with is still the configuration when the run has ended.
C14_RunIsReadOnly ==
    /\ [][RunTaking =>
            /\ stacks' = stacks
            /\ N_total_slice_voxels' = N_total_slice_voxels
            /\ N_voxels_HR_volume' = N_voxels_HR_volume
            /\ reg_type' = reg_type
            /\ alpha' = alpha
            /\ iter_max' = iter_max]_vars
    /\ [](lsqr_call.called =>
            /\ lsqr_call.reg_type = reg_type
            /\ lsqr_call.alpha = alpha
            /\ lsqr_call.iter_lim = iter_max)
    /\ [](N_total_slice_voxels = TotalSliceVoxels(stacks))

\* A run that failed inside the solver has left object and configuration alone.
C14_Witness ==
    /\ pc = "Failed"
    /\ raised = "KeyError"
    /\ lsqr_call.called
    /\ lsqr_call.alpha = alpha
    /\ lsqr_call.reg_type = reg_type
    /\ lsqr_call.iter_lim = iter_max
    /\ N_total_slice_voxels = TotalSliceVoxels(stacks)
    /\ HR_volume = hr_start

\* C15: run_reconstruction can be entered from Done (as from any idle state);
\* every run computes its row count from the regularization type stored when
\* it starts and starts without b, operator or solver result of an earlier
\* run; it builds b with that row count and calls lsqr with the alpha, type
\* and iter_max stored then; and the step after the solver's return overwrites
\* the HR volume with the solver's result, whatever it held before.
C15_ReEntrant ==
    /\ [][(Idle /\ pc' = "GetB") =>
            /\ N_voxels' = N_total_slice_voxels
                           + (IF reg_type = "TK0" THEN 1 ELSE 3) * N_voxels_HR_volume
            /\ b' = <<>>
            /\ A' = <<>>
            /\ res' = NoRes
            /\ lsqr_call' = NoCall
            /\ hr_start' = HR_volume
            /\ hr_writes' = 0]_vars
    /\ [][pc = "LsqrRet" =>
            /\ pc' = "Done"
            /\ HR_volume' = [x |-> res.x, itn |-> res.itn]
            /\ hr_writes' = 1]_vars
    /\ [][(pc = "CallLsqr" /\ lsqr_call'.called) =>
            /\ lsqr_call'.reg_type = reg_type
            /\ lsqr_call'.alpha = alpha
            /\ lsqr_call'.iter_lim = iter_max]_vars
    /\ [](b # <<>> =>
            Len(b) = N_total_slice_voxels
                     + (IF reg_type = "TK0" THEN 1 ELSE 3) * N_voxels_HR_volume)
    /\ [](A # <<>> => A = <<Len(b), N_voxels_HR_volume>>)

\* A second run, after set_alpha repaired the alpha of a first one, has
\* replaced the first run's volume.
C15_Witness ==
    /\ pc = "Done"
    /\ hr_start.x = "nan"
    /\ alpha = 4
    /\ lsqr_call.alpha = 4
    /\ HR_volume.x = "iterate"
    /\ hr_writes = 1

\* C16: set_regularization_type(t) with t other than 'TK0' and 'TK1' raises
\* ValueError and leaves the stored type, alpha and iter_max as they were;
\* with 'TK0' or 'TK1' it returns and the stored type is t; the stored type
\* changes in no other step, and get_regularization_type returns the stored
\* type.
C16_SetRegularizationType ==
    /\ [][last_call'.op = "set_regularization_type" =>
            IF last_call'.arg \in {"TK0", "TK1"}
            THEN /\ raised' = "none"
                 /\ reg_type' = last_call'.arg
                 /\ alpha' = alpha
                 /\ iter_max' = iter_max
            ELSE /\ raised' = "ValueError"
                 /\ reg_type' = reg_type
                 /\ alpha' = alpha
                 /\ iter_max' = iter_max]_vars
    /\ [][reg_type' # reg_type =>
            /\ last_call'.op = "set_regularization_type"
            /\ last_call'.arg = reg_type'
            /\ raised' = "none"]_vars
    /\ [][last_call'.op = "get_regularization_type" =>
            /\ ret' = reg_type
            /\ reg_type' = reg_type
            /\ raised' = "none"]_vars

\* A rejected set after a successful one: the type is still the one set.
C16_Witness ==
    /\ last_call = [op |-> "set_regularization_type", arg |-> "TV"]
    /\ raised = "ValueError"
    /\ pc = "Failed"
    /\ reg_type = "TK0"
    /\ HR_volume.x = "iterate"

\* C17: get_registration_type returns without an exception and its result is
\* the stored registration type (the constructor's value, or the value of the
\* last successful set_registration_type).
C17_GetterReturnsConfiguredType ==
    reg_call.op = "get_registration_type" =>
        /\ reg_raised = "none"
        /\ reg_ret = RetStr(registration_type)

\* C18: when the first Execute of a run raises RuntimeError the engine's
\* metric is set to Correlation and Execute is called once more, so a run
\* calls Execute at most twice; a transform that either Execute returned is
\* stored; when the second Execute raises too the run ends with RuntimeError
\* and the stored transform is what it was (undefined if no run stored one).
C18_RetryOnceWithCorrelation ==
    /\ [][(reg_pc = "Execute" /\ reg_pc' # "Convert") =>
            /\ reg_pc' = "Retry"
            /\ registration_method'.metric = "Correlation"
            /\ registration_method'.executes = 1
            /\ transform_sitk' = transform_sitk
            /\ reg_raised' = "none"]_vars
    /\ [][reg_pc = "Retry" =>
            /\ registration_method'.executes = 2
            /\ registration_method'.metric = "Correlation"
            /\ transform_sitk' = transform_sitk
            /\ \/ reg_pc' = "Convert" /\ reg_raised' = "none"
               \/ reg_pc' = "idle" /\ reg_raised' = "RuntimeError"]_vars
    /\ [][reg_pc = "Convert" =>
            /\ reg_pc' = "idle"
            /\ reg_raised' = "none"
            /\ transform_sitk' = [run |-> run_id,
                                  metric |-> registration_method.metric]]_vars
    /\ [][transform_sitk' # transform_sitk => reg_pc = "Convert"]_vars
    /\ [](registration_method.executes <= 2)
    /\ []((RegIdle /\ reg_call.op = "run_registration"
              /\ reg_raised = "RuntimeError")
            => /\ registration_method.executes = 2
               /\ transform_sitk.run < run_id)

\* The second run failed twice and the transform is still the one the first
\* run's retry stored.
C18_Witness ==
    /\ RegIdle
    /\ reg_call.op = "run_registration"
    /\ reg_raised = "RuntimeError"
    /\ run_id = 2
    /\ transform_sitk = [run |-> 1, metric |-> "Correlation"]
    /\ metric = "ANTSNeighborhoodCorrelation"
    /\ registration_method.executes = 2

C20_TargetSliceCount ==
    iso_pc # "entry" =>
        /\ number_of_slices_target_through_plane
              = Ceil(shape2 * pixdim2, pixdim0)
        /\ Len(data_target) = Ceil(shape2 * pixdim2, pixdim0)

\* The source slices (numbered from 1) that the loop has copied into
\* data_target so far.
CopiedSlices == {data_target[j] : j \in 1..Len(data_target)} \ {0}

\* The loop's source index addresses a slice of the image.
SourceIndexInRange == iso_i \in 0..(shape2 - 1)

\* C21: in the nearest-neighbour (order 0) loop of
\* resample_to_isotropic_grid, for every shape and every spacing ratio
\* pixdim[2]/pixdim[0] >= 1, the source index stays within 0..shape[2]-1
\* and, once the loop has ended, every source slice (the last one included)
\* has been copied to at least one output slice.
C21_NearestNeighbourCoversSource ==
    (order = 0 /\ pixdim2 >= pixdim0) =>
        /\ SourceIndexInRange
        /\ iso_pc \in {"store", "done"} => CopiedSlices = 1..shape2

\* An image of two slices that is already isotropic: the count is 2, well
\* within uint8, and both output slices are copies of source slice 0, so
\* the last source slice is never copied.
C21_LastSliceMissed ==
    /\ order = 0
    /\ shape2 = 2
    /\ pixdim0 = 1
    /\ pixdim2 = 1
    /\ iso_pc = "done"
    /\ number_of_slices_target_through_plane = 2
    /\ data_target = <<1, 1>>
    /\ iso_i = 0

====
